---- MODULE Spec2Model ----
(***************************************************************************)
(* Model of frontend/grupo_i/certificaciones.js: the certificate module    *)
(* (record factory, localStorage helpers, page handlers) and the canvas    *)
(* word-wrap helper.                                                       *)
(*                                                                         *)
(* Text is a sequence of one-character strings, so that trim, toUpperCase, *)
(* slice and split are computed character by character.                    *)
(***************************************************************************)
EXTENDS Integers, Sequences, FiniteSets, TLC

VARIABLES
    pc,              \* "start" before DOMContentLoaded, "ready" after the constructor ran
    dom,             \* which page elements getElementById finds
    slot,            \* localStorage entry under STORAGE_KEY
    certList,        \* this.certList, a JavaScript value
    currentPreview,  \* this.currentPreview: <<>> (undefined) or <<record>>
    historyButtons,  \* data-id values of the view/delete buttons in #history-list
    searchResult,    \* what the search handler wrote to #search-result
    outcome,         \* what the last handler run showed
    failedWrites,    \* how many times setItem has thrown so far
    wtext, wmax, words, n, line, lines, wpc   \* wrapText's locals and the fillText calls

vars == <<pc, dom, slot, certList, currentPreview, historyButtons, searchResult,
          outcome, failedWrites, wtext, wmax, words, n, line, lines, wpc>>

storeVars == <<pc, dom, slot, certList, currentPreview, historyButtons,
               searchResult, outcome, failedWrites>>

wrapVars == <<wtext, wmax, words, n, line, lines, wpc>>

----------------------------------------------------------------------------
(* Bounds *)

\* longest record list the handlers are let grow
MaxList == 2

\* most writes of the slot that fail in one run
MaxFailedWrites == 1

\* longest note text given to wrapText
MaxTextLen == 5

\* largest column width tried with wrapText
MaxColumn == 4

----------------------------------------------------------------------------
(* Text helpers *)

Min(a, b) == IF a < b THEN a ELSE b

\* String.prototype.slice(from, to) with 0 <= from <= to
Slice(s, from, to) == SubSeq(s, from + 1, Min(to, Len(s)))

RECURSIVE TrimStart(_)
TrimStart(s) ==
    IF s # <<>> /\ Head(s) = " " THEN TrimStart(Tail(s)) ELSE s

RECURSIVE TrimEnd(_)
TrimEnd(s) ==
    IF s # <<>> /\ s[Len(s)] = " " THEN TrimEnd(SubSeq(s, 1, Len(s) - 1)) ELSE s

\* String.prototype.trim
Trim(s) == TrimEnd(TrimStart(s))

UpperChar(c) ==
    CASE c = "a" -> "A"
      [] c = "b" -> "B"
      [] OTHER -> c

\* String.prototype.toUpperCase
ToUpperCase(s) == [i \in 1..Len(s) |-> UpperChar(s[i])]

\* a || b on strings: the empty string is falsy
OrElse(a, b) == IF a = <<>> THEN b ELSE a

----------------------------------------------------------------------------
(* Utilities and the certificate factory *)

\* Strings Math.random().toString(36) can return: "0" when the draw is 0,
\* otherwise "0." followed by base-36 digits
RandomStrings == { <<"0">>, <<"0", ".", "a", "1">> }

UidLenId == 12

UidLenCode == 16

uid(len, r) == Slice(r, 2, 2 + len)

\* instants nowISO() can return
Instants == { "2024-03-01T10:00:00.000Z" }

\* new Date().toISOString().slice(0,10)
Today == "2024-03-01"

makeCertificate(payload, r1, r2, now) ==
    [ id               |-> uid(UidLenId, r1),
      verificationCode |-> ToUpperCase(uid(UidLenCode, r2)),
      name             |-> payload.name,
      title            |-> payload.title,
      issuer           |-> payload.issuer,
      date             |-> payload.date,
      note             |-> payload.note,
      createdAt        |-> now ]

----------------------------------------------------------------------------
(* JSON and the storage helpers *)

\* JavaScript values this.certList can hold
JsArray(items) == [kind |-> "array", items |-> items]

JsOther(k) == [kind |-> k, items |-> <<>>]

\* JSON text of one record: its members in key order
StringifyRecord(c) ==
    <<c.id, c.verificationCode, c.name, c.title, c.issuer, c.date, c.note, c.createdAt>>

ParseRecord(t) ==
    [ id |-> t[1], verificationCode |-> t[2], name |-> t[3], title |-> t[4],
      issuer |-> t[5], date |-> t[6], note |-> t[7], createdAt |-> t[8] ]

\* JSON.stringify of a value
JSONstringify(v) ==
    IF v.kind = "array"
    THEN [form |-> "array", elems |-> [i \in 1..Len(v.items) |-> StringifyRecord(v.items[i])]]
    ELSE [form |-> v.kind, elems |-> <<>>]

\* JSON.parse of a text: [threw, value]
JSONparse(text) ==
    CASE text.form = "garbage" -> [threw |-> TRUE, value |-> JsOther("undefined")]
      [] text.form = "array" ->
            [threw |-> FALSE,
             value |-> JsArray([i \in 1..Len(text.elems) |-> ParseRecord(text.elems[i])])]
      [] OTHER -> [threw |-> FALSE, value |-> JsOther(text.form)]

EmptyArrayText == [form |-> "array", elems |-> <<>>]

SlotAbsent == [present |-> FALSE, text |-> [form |-> "empty", elems |-> <<>>]]

SlotText(text) == [present |-> TRUE, text |-> text]

\* storage.load()
storage_load(s) ==
    LET raw == IF ~s.present \/ s.text.form = "empty" THEN EmptyArrayText ELSE s.text
        parsed == JSONparse(raw)
    IN  IF parsed.threw THEN JsArray(<<>>) ELSE parsed.value

\* save without its try/catch: the failure of setItem reaches the caller
storage_save_uncaught(s, list, writeOk) ==
    IF writeOk
    THEN [slot |-> SlotText(JSONstringify(list)), threw |-> FALSE]
    ELSE [slot |-> s, threw |-> TRUE]

\* storage.save(list): the slot afterwards and whether save threw to its caller;
\* setItem throws when the write fails (writeOk = FALSE) and the catch logs it
storage_save(s, list, writeOk) ==
    IF writeOk
    THEN [slot |-> SlotText(JSONstringify(list)), threw |-> FALSE]
    ELSE [slot |-> s, threw |-> FALSE]

\* clear that leaves the entry in place
storage_clear_keeps(s) == s

\* storage.clear()
storage_clear(s) == SlotAbsent

----------------------------------------------------------------------------
(* The page: form values and the elements present *)

\* values of #input-name, #input-title, #input-issuer, #input-date, #input-note
FormInputs ==
    { [name |-> <<" ">>, title |-> <<>>, issuer |-> <<>>, date |-> "", note |-> <<>>],
      [name |-> <<" ", "A", "n", "a", " ">>, title |-> <<" ", "T">>, issuer |-> <<"I">>,
       date |-> "2024-02-01", note |-> <<"n", " ">>] }

DefaultName == <<"N", "o", "m", "b", "r", "e", " ", "d", "e", "l", " ", "b", "e", "n", "e", "f", "i", "c", "i", "a", "r", "i", "o">>

DefaultTitle == <<"C", "e", "r", "t", "i", "f", "i", "c", "a", "d", "o">>

DefaultIssuer == <<"C", "e", "n", "t", "r", "o">>

\* pages: one with the form, its canvas and the history list, the history
\* page alone, and a form page without a canvas
DomConfigs ==
    { [form |-> TRUE,  canvas |-> TRUE,  historyList |-> TRUE],
      [form |-> FALSE, canvas |-> FALSE, historyList |-> TRUE],
      [form |-> TRUE,  canvas |-> FALSE, historyList |-> FALSE] }

\* the payload built without trimming the name
SavePayloadUntrimmedName(f) ==
    [ name   |-> f.name,
      title  |-> Trim(f.title),
      issuer |-> Trim(f.issuer),
      date   |-> IF f.date = "" THEN Today ELSE f.date,
      note   |-> Trim(f.note) ]

\* the payload _handleGenerateAndSave builds from the form
SavePayload(f) ==
    [ name   |-> Trim(f.name),
      title  |-> Trim(f.title),
      issuer |-> Trim(f.issuer),
      date   |-> IF f.date = "" THEN Today ELSE f.date,
      note   |-> Trim(f.note) ]

\* the payload _renderPreviewFromForm builds from the form
PreviewPayload(f) ==
    [ name   |-> OrElse(Trim(f.name), DefaultName),
      title  |-> OrElse(Trim(f.title), DefaultTitle),
      issuer |-> OrElse(Trim(f.issuer), DefaultIssuer),
      date   |-> IF f.date = "" THEN Today ELSE f.date,
      note   |-> OrElse(Trim(f.note), <<>>) ]

\* forms whose name is not empty after trimming, and the others
ValidForms == { f \in FormInputs : Trim(f.name) # <<>> }

InvalidForms == FormInputs \ ValidForms

\* records a generate-and-save can have stored
StoredRecords ==
    { makeCertificate(SavePayload(f), r1, r2, t) :
        f \in ValidForms, r1 \in RandomStrings, r2 \in RandomStrings, t \in Instants }

\* contents the slot can have when the page loads: absent, "", text that is
\* not JSON, JSON that is no array, or an array an earlier session saved
InitialSlots ==
    { SlotAbsent }
    \cup { SlotText([form |-> k, elems |-> <<>>]) :
             k \in {"empty", "garbage", "null", "number", "object"} }
    \cup { SlotText(JSONstringify(JsArray(<<>>))) }
    \cup { SlotText(JSONstringify(JsArray(<<c>>))) :
             c \in {d \in StoredRecords : d.id # <<>> /\ d.verificationCode # <<>>} }

----------------------------------------------------------------------------
(* Handlers *)

\* what the last handler run showed: an uncaught exception, the blocking alert
Outcome(threw, alerted) == [threw |-> threw, alerted |-> alerted]

Ids(items) == { items[i].id : i \in 1..Len(items) }

Codes(items) == { items[i].verificationCode : i \in 1..Len(items) }

\* _renderHistory(): whether it threw, and the buttons left in #history-list
RenderHistory(list, d, buttons) ==
    IF ~d.historyList THEN [threw |-> FALSE, buttons |-> buttons]
    ELSE IF list.kind = "null" \/ (list.kind = "array" /\ Len(list.items) = 0)
         THEN [threw |-> FALSE, buttons |-> {}]
    ELSE IF list.kind = "array"
         THEN [threw |-> FALSE, buttons |-> Ids(list.items)]
    ELSE [threw |-> TRUE, buttons |-> {}]   \* for...of over a number or a plain object

\* push in place of unshift
UnshiftAtEnd(items, c) == Append(items, c)

\* Array.prototype.unshift
Unshift(items, c) == <<c>> \o items

\* filter with the test inverted
FilterKeepId(items, id) == SelectSeq(items, LAMBDA c : c.id = id)

\* Array.prototype.filter(c => c.id !== id)
FilterOutId(items, id) == SelectSeq(items, LAMBDA c : c.id # id)

\* Array.prototype.find(c => c.verificationCode === q): <<>> or <<record>>
FindByCode(items, q) ==
    LET hits == SelectSeq(items, LAMBDA c : c.verificationCode = q)
    IN  IF hits = <<>> THEN <<>> ELSE <<Head(hits)>>

NoResult == [kind |-> "blank", found |-> <<>>]

\* new CertificateModule() on DOMContentLoaded
Constructor ==
    /\ pc = "start"
    /\ LET loaded == storage_load(slot)
           rh == RenderHistory(loaded, dom, historyButtons)
       IN  /\ certList' = loaded
           /\ historyButtons' = rh.buttons
           /\ outcome' = Outcome(rh.threw, FALSE)
    /\ pc' = "ready"
    /\ UNCHANGED <<dom, slot, currentPreview, searchResult, failedWrites>>
    /\ UNCHANGED wrapVars

\* form submit -> _handleGenerateAndSave()
HandleGenerateAndSave(f, r1, r2, now, writeOk) ==
    /\ pc = "ready"
    /\ dom.form
    /\ certList.kind = "array" => Len(certList.items) < MaxList
    /\ ~writeOk => failedWrites < MaxFailedWrites
    /\ LET payload == SavePayload(f)
           cert == makeCertificate(payload, r1, r2, now)
       IN  IF payload.name = <<>>
           THEN /\ outcome' = Outcome(FALSE, TRUE)
                /\ UNCHANGED <<slot, certList, currentPreview, historyButtons, failedWrites>>
           ELSE IF certList.kind # "array"
           THEN \* this.certList.unshift is not a function, or certList is null
                /\ outcome' = Outcome(TRUE, FALSE)
                /\ UNCHANGED <<slot, certList, currentPreview, historyButtons, failedWrites>>
           ELSE LET newList == JsArray(Unshift(certList.items, cert))
                    sv == storage_save(slot, newList, writeOk)
                    rh == RenderHistory(newList, dom, historyButtons)
                IN  /\ certList' = newList
                    /\ slot' = sv.slot
                    /\ failedWrites' = IF writeOk THEN failedWrites ELSE failedWrites + 1
                    /\ IF sv.threw
                       THEN /\ outcome' = Outcome(TRUE, FALSE)
                            /\ UNCHANGED <<currentPreview, historyButtons>>
                       ELSE /\ currentPreview' = <<cert>>
                            /\ historyButtons' = rh.buttons
                            /\ outcome' = Outcome(rh.threw, FALSE)
    /\ UNCHANGED <<pc, dom, searchResult>>
    /\ UNCHANGED wrapVars

\* #btn-preview click -> _renderPreviewFromForm()
RenderPreviewFromForm(f, r1, r2, now) ==
    /\ pc = "ready"
    /\ dom.form
    /\ IF ~dom.canvas
       THEN UNCHANGED currentPreview
       ELSE currentPreview' = <<makeCertificate(PreviewPayload(f), r1, r2, now)>>
    /\ outcome' = Outcome(FALSE, FALSE)
    /\ UNCHANGED <<pc, dom, slot, certList, historyButtons, searchResult, failedWrites>>
    /\ UNCHANGED wrapVars

\* .btn-delete click
DeleteClick(id, confirmed, writeOk) ==
    /\ pc = "ready"
    /\ dom.historyList
    /\ id \in historyButtons
    /\ ~writeOk => failedWrites < MaxFailedWrites
    /\ IF ~confirmed
       THEN /\ outcome' = Outcome(FALSE, FALSE)
            /\ UNCHANGED <<slot, certList, historyButtons, failedWrites>>
       ELSE IF certList.kind # "array"
       THEN /\ outcome' = Outcome(TRUE, FALSE)
            /\ UNCHANGED <<slot, certList, historyButtons, failedWrites>>
       ELSE LET newList == JsArray(FilterOutId(certList.items, id))
                sv == storage_save(slot, newList, writeOk)
                rh == RenderHistory(newList, dom, historyButtons)
            IN  /\ certList' = newList
                /\ slot' = sv.slot
                /\ failedWrites' = IF writeOk THEN failedWrites ELSE failedWrites + 1
                /\ IF sv.threw
                   THEN /\ outcome' = Outcome(TRUE, FALSE)
                        /\ UNCHANGED historyButtons
                   ELSE /\ historyButtons' = rh.buttons
                        /\ outcome' = Outcome(rh.threw, FALSE)
    /\ UNCHANGED <<pc, dom, currentPreview, searchResult>>
    /\ UNCHANGED wrapVars

\* #btn-clear-history click
ClearHistoryClick(confirmed) ==
    /\ pc = "ready"
    /\ dom.historyList
    /\ IF ~confirmed
       THEN /\ outcome' = Outcome(FALSE, FALSE)
            /\ UNCHANGED <<slot, certList, historyButtons>>
       ELSE LET rh == RenderHistory(JsArray(<<>>), dom, historyButtons)
            IN  /\ certList' = JsArray(<<>>)
                /\ slot' = storage_clear(slot)
                /\ historyButtons' = rh.buttons
                /\ outcome' = Outcome(rh.threw, FALSE)
    /\ UNCHANGED <<pc, dom, currentPreview, searchResult, failedWrites>>
    /\ UNCHANGED wrapVars

\* what the #btn-search handler does with the text of #search-code
SearchByCode(list, text) ==
    LET q == ToUpperCase(Trim(text))
    IN  IF q = <<>> THEN [threw |-> FALSE, kind |-> "enter_code", found |-> <<>>]
        ELSE IF list.kind # "array"
        THEN [threw |-> TRUE, kind |-> "threw", found |-> <<>>]
        ELSE LET found == FindByCode(list.items, q)
             IN  IF found # <<>>
                 THEN [threw |-> FALSE, kind |-> "valid", found |-> found]
                 ELSE [threw |-> FALSE, kind |-> "not_found", found |-> <<>>]

\* texts typed into #search-code
Queries ==
    { <<>>, <<" ">>, <<"A", "1">>, <<" ", "a", "1", " ">>, <<"a">> }

\* #btn-search click
SearchClick(text) ==
    /\ pc = "ready"
    /\ dom.historyList
    /\ LET r == SearchByCode(certList, text)
       IN  /\ searchResult' = IF r.threw THEN searchResult
                              ELSE [kind |-> r.kind, found |-> r.found]
           /\ outcome' = Outcome(r.threw, FALSE)
    /\ UNCHANGED <<pc, dom, slot, certList, currentPreview, historyButtons, failedWrites>>
    /\ UNCHANGED wrapVars

\* #btn-clear-search click
ClearSearchClick ==
    /\ pc = "ready"
    /\ dom.historyList
    /\ searchResult' = NoResult
    /\ outcome' = Outcome(FALSE, FALSE)
    /\ UNCHANGED <<pc, dom, slot, certList, currentPreview, historyButtons, failedWrites>>
    /\ UNCHANGED wrapVars

\* #btn-export-json click: JSON.stringify(this.certList, null, 2) into a download
ExportJsonClick ==
    /\ pc = "ready"
    /\ dom.historyList
    /\ outcome' = Outcome(FALSE, FALSE)
    /\ UNCHANGED <<pc, dom, slot, certList, currentPreview, historyButtons, searchResult,
                   failedWrites>>
    /\ UNCHANGED wrapVars

WrapIdle ==
    /\ wtext = <<>> /\ wmax = 0 /\ words = <<>> /\ n = 0
    /\ line = <<>> /\ lines = <<>> /\ wpc = "idle"

Init ==
    /\ pc = "start"
    /\ dom \in DomConfigs
    /\ slot \in InitialSlots
    /\ certList = JsOther("undefined")
    /\ currentPreview = <<>>
    /\ historyButtons = {}
    /\ searchResult = NoResult
    /\ outcome = Outcome(FALSE, FALSE)
    /\ failedWrites = 0
    /\ WrapIdle

Next ==
    \/ Constructor
    \/ \E f \in FormInputs, r1 \in RandomStrings, r2 \in RandomStrings,
          now \in Instants, writeOk \in BOOLEAN :
          HandleGenerateAndSave(f, r1, r2, now, writeOk)
    \/ \E f \in FormInputs, r1 \in RandomStrings, r2 \in RandomStrings, now \in Instants :
          RenderPreviewFromForm(f, r1, r2, now)
    \/ \E id \in historyButtons, confirmed \in BOOLEAN, writeOk \in BOOLEAN :
          DeleteClick(id, confirmed, writeOk)
    \/ \E confirmed \in BOOLEAN : ClearHistoryClick(confirmed)
    \/ ExportJsonClick

Spec == Init /\ [][Next]_vars

\* the history page's search box, on top of the operations above
NextSearch ==
    \/ Next
    \/ \E text \in Queries : SearchClick(text)
    \/ ClearSearchClick

SpecSearch == Init /\ [][NextSearch]_vars

----------------------------------------------------------------------------
(* wrapText(ctx, text, x, y, maxWidth, lineHeight) *)

\* characters of a note: a narrow glyph, a wide glyph, the space
NoteChars == { "i", "m", " " }

\* ctx.measureText(s).width: advance widths add up
CharWidth(c) ==
    CASE c = "m" -> 2
      [] OTHER -> 1

RECURSIVE MeasureText(_)
MeasureText(s) ==
    IF s = <<>> THEN 0 ELSE CharWidth(Head(s)) + MeasureText(Tail(s))

\* String.prototype.split(' ')
RECURSIVE SplitSpace(_, _)
SplitSpace(s, cur) ==
    IF s = <<>> THEN <<cur>>
    ELSE IF Head(s) = " " THEN <<cur>> \o SplitSpace(Tail(s), <<>>)
    ELSE SplitSpace(Tail(s), Append(cur, Head(s)))

Split(s) == SplitSpace(s, <<>>)

\* the loop body measuring the line before the word is added
WrapStepMeasuresLine(ln, word, k, maxWidth) ==
    LET testLine == ln \o word \o <<" ">>
    IN  IF MeasureText(ln) > maxWidth /\ k > 0
        THEN [emit |-> <<Trim(ln)>>, line |-> word \o <<" ">>]
        ELSE [emit |-> <<>>, line |-> testLine]

\* one pass of the for loop's body: the line emitted by fillText, if any
\* (<<>> or <<text>>), and the line carried on
WrapStep(ln, word, k, maxWidth) ==
    LET testLine == ln \o word \o <<" ">>
    IN  IF MeasureText(testLine) > maxWidth /\ k > 0
        THEN [emit |-> <<Trim(ln)>>, line |-> word \o <<" ">>]
        ELSE [emit |-> <<>>, line |-> testLine]

RECURSIVE TextsUpTo(_)
TextsUpTo(k) ==
    IF k = 0 THEN { <<>> }
    ELSE LET shorter == TextsUpTo(k - 1)
         IN  shorter \cup { Append(t, c) : t \in shorter, c \in NoteChars }

\* const words = text.split(' '); let line = ''
WrapBegin ==
    /\ wpc = "call"
    /\ words' = Split(wtext)
    /\ line' = <<>>
    /\ n' = 0
    /\ wpc' = "loop"
    /\ UNCHANGED <<wtext, wmax, lines>>
    /\ UNCHANGED storeVars

\* for (let n = 0; n < words.length; n++) { ... }
WrapIterate ==
    /\ wpc = "loop"
    /\ n < Len(words)
    /\ LET st == WrapStep(line, words[n + 1], n, wmax)
       IN  /\ lines' = lines \o st.emit
           /\ line' = st.line
    /\ n' = n + 1
    /\ UNCHANGED <<wtext, wmax, words, wpc>>
    /\ UNCHANGED storeVars

\* if (line) ctx.fillText(line.trim(), ...)
WrapFinish ==
    /\ wpc = "loop"
    /\ n = Len(words)
    /\ lines' = IF line # <<>> THEN Append(lines, Trim(line)) ELSE lines
    /\ wpc' = "done"
    /\ UNCHANGED <<wtext, wmax, words, n, line>>
    /\ UNCHANGED storeVars

InitWrap ==
    /\ pc = "start"
    /\ dom = [form |-> TRUE, canvas |-> TRUE, historyList |-> TRUE]
    /\ slot = SlotAbsent
    /\ certList = JsOther("undefined")
    /\ currentPreview = <<>>
    /\ historyButtons = {}
    /\ searchResult = NoResult
    /\ outcome = Outcome(FALSE, FALSE)
    /\ failedWrites = 0
    /\ wtext \in TextsUpTo(MaxTextLen)
    /\ wmax \in 1..MaxColumn
    /\ words = <<>> /\ n = 0 /\ line = <<>> /\ lines = <<>>
    /\ wpc = "call"

NextWrap ==
    \/ WrapBegin
    \/ WrapIterate
    \/ WrapFinish

SpecWrap == InitWrap /\ [][NextWrap]_vars

----------------------------------------------------------------------------
(* Properties of the record store *)

IsArray(v) == v.kind = "array"

\* the records of items whose id is not id, in order
RECURSIVE OtherRecords(_, _)
OtherRecords(items, id) ==
    IF items = <<>> THEN <<>>
    ELSE IF Head(items).id = id THEN OtherRecords(Tail(items), id)
    ELSE <<Head(items)>> \o OtherRecords(Tail(items), id)

\* C1 (as stated): whenever a generate-and-save with a non-empty trimmed name
\* completes, storage.load() afterwards returns the record just created
\* followed by the records the list held before, in their order.
C1_AddThenLoadHeadsNew ==
    [][ \A f \in ValidForms, r1 \in RandomStrings, r2 \in RandomStrings,
           now \in Instants, writeOk \in BOOLEAN :
           ( /\ certList' # certList
             /\ HandleGenerateAndSave(f, r1, r2, now, writeOk)
             /\ ~outcome'.threw )
           => storage_load(slot') =
                JsArray(<<makeCertificate(SavePayload(f), r1, r2, now)>> \o certList.items)
      ]_vars

\* C1 (amended): a completed generate-and-save puts the new record at the head
\* of the in-memory list, before the records held before; storage.load()
\* returns that list when the write succeeded, and the slot is untouched when
\* the write failed.
C1_AddThenLoadWhenWritten ==
    [][ certList' # certList =>
        \A f \in ValidForms, r1 \in RandomStrings, r2 \in RandomStrings,
           now \in Instants, writeOk \in BOOLEAN :
           (HandleGenerateAndSave(f, r1, r2, now, writeOk) /\ ~outcome'.threw)
           => /\ certList' =
                   JsArray(<<makeCertificate(SavePayload(f), r1, r2, now)>> \o certList.items)
              /\ writeOk => storage_load(slot') = certList'
              /\ ~writeOk => slot' = slot
      ]_vars

\* a form page without canvas sets currentPreview only in generate-and-save:
\* a second record was added in front of an older, different one and written
C1_Witness ==
    /\ dom.form /\ ~dom.canvas
    /\ IsArray(certList) /\ Len(certList.items) = 2
    /\ currentPreview = <<certList.items[1]>>
    /\ certList.items[1] # certList.items[2]
    /\ storage_load(slot) = certList

C3_LoadAlwaysSequence ==
    pc = "ready" =>
        /\ IsArray(storage_load(slot))
        /\ IsArray(certList)
        /\ ~outcome.threw

\* C4: when the write of the slot fails during storage.save, the slot keeps
\* its content and the handler that called save goes on without an exception.
C4_FailedWriteKeepsSlot ==
    [][ certList' # certList =>
        /\ \A f \in ValidForms, r1 \in RandomStrings, r2 \in RandomStrings,
              now \in Instants :
              HandleGenerateAndSave(f, r1, r2, now, FALSE)
              => /\ slot' = slot
                 /\ ~outcome'.threw
                 /\ currentPreview' = <<Head(certList'.items)>>
        /\ \A id \in historyButtons :
              DeleteClick(id, TRUE, FALSE) => (slot' = slot /\ ~outcome'.threw)
      ]_vars

\* a write has failed: memory is ahead of the slot and no handler raised
C4_Witness ==
    /\ pc = "ready"
    /\ IsArray(certList)
    /\ storage_load(slot) # certList
    /\ ~outcome.threw

DistinctIds(items) ==
    \A i, j \in 1..Len(items) : i # j => items[i].id # items[j].id

DistinctCodes(items) ==
    \A i, j \in 1..Len(items) :
        i # j => items[i].verificationCode # items[j].verificationCode

\* C5: the ids of the listed records are pairwise distinct, so are their
\* verification codes, and a created record's id and code are non-empty.
C5_IdsAndCodesUnique ==
    /\ IsArray(certList) =>
          /\ DistinctIds(certList.items)
          /\ DistinctCodes(certList.items)
          /\ \A i \in 1..Len(certList.items) :
                certList.items[i].id # <<>> /\ certList.items[i].verificationCode # <<>>
    /\ currentPreview # <<>> =>
          currentPreview[1].id # <<>> /\ currentPreview[1].verificationCode # <<>>

NamesNonEmpty ==
    /\ IsArray(certList) =>
          \A i \in 1..Len(certList.items) : certList.items[i].name # <<>>
    /\ LET stored == storage_load(slot)
       IN  IsArray(stored) =>
              \A i \in 1..Len(stored.items) : stored.items[i].name # <<>>

\* C6: a submit whose name is empty after trimming changes neither the list,
\* the slot nor the current preview, and every record in the list or the slot
\* has a non-empty name.
C6_EmptyNameAborts ==
    /\ NamesNonEmpty
    /\ [][ /\ \A f \in InvalidForms, r1 \in RandomStrings, r2 \in RandomStrings,
                 now \in Instants, writeOk \in BOOLEAN :
                 HandleGenerateAndSave(f, r1, r2, now, writeOk)
                 => /\ UNCHANGED <<certList, slot, currentPreview>>
                    /\ outcome'.alerted
           /\ NamesNonEmpty'
         ]_vars

\* the alert was shown over a store that holds a record and a preview
C6_Witness ==
    /\ outcome.alerted
    /\ IsArray(certList) /\ Len(certList.items) >= 1
    /\ currentPreview # <<>>

\* a generate-and-save with a non-empty trimmed name that ran to its end
AddCompletes(writeOk) ==
    /\ certList' # certList
    /\ \E f \in ValidForms, r1 \in RandomStrings, r2 \in RandomStrings, now \in Instants :
          HandleGenerateAndSave(f, r1, r2, now, writeOk)
    /\ ~outcome'.threw

\* a confirmed delete that ran to its end
RemoveCompletes(writeOk) ==
    /\ certList' # certList
    /\ \E id \in historyButtons : DeleteClick(id, TRUE, writeOk)
    /\ ~outcome'.threw

\* a confirmed clear of the history that ran to its end
ClearCompletes == ClearHistoryClick(TRUE) /\ ~outcome'.threw

\* C9 (as stated): after every completed add, remove or clear, also when the
\* write failed, storage.load() equals the in-memory list.
C9_SlotEqualsList ==
    [][ (\/ \E writeOk \in BOOLEAN : AddCompletes(writeOk)
         \/ \E writeOk \in BOOLEAN : RemoveCompletes(writeOk)
         \/ ClearCompletes)
        => (storage_load(slot') = certList')
      ]_vars

\* C9 (amended): after every completed add or remove whose write succeeded,
\* and after every clear, storage.load() equals the in-memory list; after a
\* failed write the slot still holds what it held before.
C9_SlotEqualsListWhenWritten ==
    [][ /\ (AddCompletes(TRUE) \/ RemoveCompletes(TRUE) \/ ClearCompletes)
           => (storage_load(slot') = certList')
        /\ (AddCompletes(FALSE) \/ RemoveCompletes(FALSE))
           => (slot' = slot)
      ]_vars

\* the first record was added to an empty list on a form page without canvas
\* and written through
C9_Witness ==
    /\ dom.form /\ ~dom.canvas
    /\ IsArray(certList) /\ Len(certList.items) = 1
    /\ currentPreview = <<certList.items[1]>>
    /\ slot.present /\ storage_load(slot) = certList

\* C10: a preview leaves the list and the slot unchanged, and the previewed
\* record's id and verification code are found on no record of the store.
C10_PreviewDetached ==
    [][ \A f \in FormInputs, r1 \in RandomStrings, r2 \in RandomStrings, now \in Instants :
           (dom.canvas /\ RenderPreviewFromForm(f, r1, r2, now))
           => /\ UNCHANGED <<certList, slot>>
              /\ IsArray(certList') =>
                    /\ currentPreview'[1].id \notin Ids(certList'.items)
                    /\ currentPreview'[1].verificationCode \notin Codes(certList'.items)
      ]_vars

----------------------------------------------------------------------------
(* Properties of the search by code *)

EqualUpToCase(a, b) == ToUpperCase(a) = ToUpperCase(b)

\* C7: a search whose query equals a stored verification code up to letter
\* case shows the first record in list order with that code, and a search
\* that matches no stored code shows "not found"; no search raises or changes
\* the list, the slot or the preview.
C7_SearchIgnoresCase ==
    [][ \A text \in Queries :
           SearchClick(text)
           => /\ ~outcome'.threw
              /\ UNCHANGED <<certList, slot, currentPreview>>
              /\ LET items == IF IsArray(certList) THEN certList.items ELSE <<>>
                     hits == SelectSeq(items,
                                LAMBDA c : EqualUpToCase(c.verificationCode, Trim(text)))
                 IN  IF hits # <<>>
                     THEN searchResult' = [kind |-> "valid", found |-> <<Head(hits)>>]
                     ELSE IF Trim(text) = <<>>
                     THEN searchResult'.kind \in {"enter_code", "not_found"}
                     ELSE searchResult' = [kind |-> "not_found", found |-> <<>>]
      ]_vars

----------------------------------------------------------------------------
(* Properties of wrapText *)

\* the words of a text: what lies between its spaces
WordsOf(s) == SelectSeq(Split(s), LAMBDA w : w # <<>>)

RECURSIVE WordsOfLines(_)
WordsOfLines(ls) ==
    IF ls = <<>> THEN <<>> ELSE WordsOf(Head(ls)) \o WordsOfLines(Tail(ls))

NoLineOverflows == \A i \in 1..Len(lines) : MeasureText(lines[i]) <= wmax

\* the lines, read in order, hold the words of the text, each one whole
WholeWordsOnly == wpc = "done" => WordsOfLines(lines) = WordsOf(wtext)

EveryWordFits == \A i \in 1..Len(Split(wtext)) : MeasureText(Split(wtext)[i]) <= wmax

\* C8 (as stated): for every text, also one with a word wider than the
\* column, no emitted line is wider than the maximum and the lines hold whole
\* words only.
C8_WrapNeverOverflows == NoLineOverflows /\ WholeWordsOnly

\* C8 (amended): the lines hold whole words only, and when no single word is
\* wider than the maximum no emitted line is wider than the maximum.
C8_WrapFitsWhenWordsFit == (EveryWordFits => NoLineOverflows) /\ WholeWordsOnly

\* a text whose words all fit was wrapped into several lines, one of them
\* with two words
C8_Witness ==
    /\ wpc = "done"
    /\ EveryWordFits
    /\ Len(lines) >= 2
    /\ \E i \in 1..Len(lines) : Len(WordsOf(lines[i])) >= 2

====
